---- MODULE Spec2Model ----
(***************************************************************************)
(* Model of the campaign dispatch loop of the WhatsApp bot, sendBroadcast, *)
(* and of the progress report it prints, CampaignResult.                   *)
(*                                                                         *)
(* sendBroadcast is an async function: it runs until it awaits a           *)
(* collaborator and resumes when the collaborator returns or raises.  The  *)
(* program counter of a run names the call the run is suspended in, and    *)
(* there is one action for each way a suspended call can end.  Every       *)
(* variable is a function of the run, since the locals of two invocations  *)
(* of sendBroadcast are distinct.                                          *)
(*                                                                         *)
(* The second part models the inbound router, MessageAnalyzer: the chain   *)
(* of conditions it tests on a message and the handler each branch calls.  *)
(***************************************************************************)
EXTENDS Integers, Sequences, FiniteSets, TLC

(* ------------------------------ bounds -------------------------------- *)

\* Longest contact list handed to a run.
MaxContacts == 3

\* Largest value of InputOne.Agents, the number of sessions of the pool.
MaxAgents == 2

\* Most contacts of each of two runs that go on at the same time.
MaxConcurrentContacts == 1

\* Most inbound messages handed to the router in one behaviour.
MaxEvents == 2

\* Longest FAQ table and longest project table.
MaxTable == 2

\* Largest amount of one payment; the commissions are of amount 2.
MaxAmount == 2

\* Most documents a collection holds before the first run.
MaxOldDocuments == 1

\* Largest hours argument of toMilliseconds (24: one whole day).
MaxHrs == 24

(* ------------------------------ values -------------------------------- *)

RunIds == {"run1", "run2"}

\* Raw contact strings as they come from the contact source.
RawNumbers == {"971501112222", "971501112222-malformed"}

\* What the validator hands back for a string that matches no country pattern.
InvalidFormat == "InvalidFormat"

\* The message body of the campaign.
AfternoonMessage == "AfternoonMessage"

\* JavaScript's NaN, the value of i % 0.
NaN == 0 - 1

\* The value of a variable that was declared and not assigned yet.
undefined == <<>>

\* Last-activity timestamps a found chat can carry (unix seconds, never 0).
Timestamps == {1700000000}

\* The Project argument: an entry of MyProjects, or nothing at all.
Projects == {[defined |-> TRUE, ProjectName |-> "Damac Hills 2"],
             [defined |-> FALSE, ProjectName |-> ""]}

VARIABLES
    active,             \* the runs that were started
    Agents,             \* InputOne.Agents
    MNumbers,           \* argument: the contact list
    Project,            \* argument: the campaign
    newChatsOnly,       \* argument: the run mode
    pc,                 \* the call a run is suspended in
    numbers,            \* the shuffled contact list
    i,                  \* the loop index
    successes, fails, skipped,
    AgentForIteration, WhatsAppBotClient,
    validatedContact, validatedChatResult,
    returned,           \* the value sendBroadcast resolved with
    trace,              \* history: the calls made and counters bumped, in order
    selected,           \* history: the session index chosen at each iteration
    reports             \* history: the progress observations printed

\* The state of MessageAnalyzer and of the tables it reads.
VARIABLES
    ClientQuestionsArray,   \* the FAQ questions
    ClientAnswersArray,     \* the FAQ answers, parallel to the questions
    MyProjects,             \* the campaigns
    msg,                    \* the message of the call that ran last
    rpc,                    \* where that call stands: at an await, or over
    fired,                  \* the branches of the chain its message entered
    step,                   \* the branch it is in
    invoked,                \* history: the handlers it called
    caught,                 \* errors the catch block logged for it
    suspended,              \* the other calls that wait for their handler
    pending,                \* replies sent and not awaited, still in flight
    unhandled,              \* rejections no catch block received
    handled                 \* messages routed so far

\* The wall clock, as the throttle sees it.
VARIABLE
    permitted               \* the time now is inside the allowed sending window

\* The database setupDatabase works on, and the script itself.
VARIABLES
    collections,            \* the names of the collections of the database
    documents,              \* the number of documents of each collection
    setup,                  \* the calls of setupDatabase, each at its await
    setupLog                \* history: what each call printed

\* The commission tables, and the calls that record a payment.
VARIABLES
    commissions,            \* the status of each commission, by id
    payments,               \* the commissionPayment records
    calls                   \* the calls of payCommission and recordPayment

\* toMilliseconds and convertMsToTime.
VARIABLES
    inHrs, inMin, inSec,    \* the arguments of toMilliseconds
    milliseconds,           \* its result, the argument of convertMsToTime
    time,                   \* the string convertMsToTime returns, by character
    tpc                     \* the function to call next

dbVars == <<collections, documents, setup, setupLog>>

commissionVars == <<commissions, payments, calls>>

timeVars == <<inHrs, inMin, inSec, milliseconds, time, tpc>>

utilVars == <<dbVars, commissionVars, timeVars>>

runVars == <<active, Agents, MNumbers, Project, newChatsOnly, pc, numbers, i,
             successes, fails, skipped, AgentForIteration, WhatsAppBotClient,
             validatedContact, validatedChatResult, returned, trace, selected,
             reports>>

tables == <<ClientQuestionsArray, ClientAnswersArray, MyProjects>>

routerVars == <<tables, msg, rpc, fired, step, invoked, caught, suspended, pending,
                unhandled, handled>>

vars == <<runVars, routerVars, permitted, utilVars>>

args == <<active, Agents, MNumbers, Project, newChatsOnly>>

(* ------------------------------ helpers ------------------------------- *)

Upd(f, r, v) == [f EXCEPT ![r] = v]

Append2(s, a, b) == Append(Append(s, a), b)

\* All sequences over S of length at most n.
SeqUpTo(S, n) == UNION {[1..k -> S] : k \in 0..n}

\* The rearrangements of a sequence.
Permutes(s) ==
    {t \in [1..Len(s) -> {s[j] : j \in 1..Len(s)}] :
        \E f \in [1..Len(s) -> 1..Len(s)] :
            /\ \A a, b \in 1..Len(s) : a # b => f[a] # f[b]
            /\ \A j \in 1..Len(s) : t[j] = s[f[j]]}

\* Non-decreasing under an arbitrary fixed order of the raw strings; the
\* shuffle produces every order of the list anyway.
Rank(raw) == IF raw = "971501112222" THEN 1 ELSE 2

Ordered(s) == \A j \in 1..(Len(s) - 1) : Rank(s[j]) <= Rank(s[j + 1])

\* JavaScript's a % b for a >= 0, b >= 0.
JsRem(a, b) == IF b = 0 THEN NaN ELSE a % b

\* JavaScript truthiness of a number.
Truthy(n) == n # 0

(* --------------------------- collaborators ---------------------------- *)
(* The modules sendBroadcast imports are not part of the sources at hand;  *)
(* each is modelled by its contract.                                       *)

\* ShuffleMyArray: some rearrangement of the list.
ShuffleMyArray(list) == Permutes(list)

\* The session handle of the pool with the given index.
Handle(idx) == <<"Agent", idx>>

\* SelectingBotForCampaign: the handle at the index; an index that is not a
\* number (pool size zero) is a configuration error.
SelectingBotForCampaignRaises(idx) == idx = NaN

SelectingBotForCampaign(idx) == Handle(idx)

\* validateNumberWithCountryCode: the string matched against the country
\* patterns and turned into the chat identifier of the number.
validateNumberWithCountryCode(raw) ==
    IF raw = "971501112222" THEN "971501112222@c.us" ELSE InvalidFormat

\* findAndCheckChat: the chat of the contact on the session, if there is one.
NotFound == [found |-> FALSE, timestamp |-> 0]

Found(ts) == [found |-> TRUE, timestamp |-> ts]

\* The results the probe can return for what it is handed as the contact.
\* The probe can also raise (transport).
findAndCheckChat(contact) ==
    {NotFound} \cup {Found(ts) : ts \in Timestamps}

\* sendMessage: the delivery receipt of an acknowledged send; the call can
\* also raise (transport), whatever it is handed as the contact.
sendMessage(client, contact, message) ==
    [from |-> client, to |-> contact, body |-> message]

(* --------------------------- CampaignResult --------------------------- *)

\* Reading Project.ProjectName of a Project that is undefined raises.
CampaignResultRaises(SendReport, Proj) == ~Proj.defined

\* Variant of CampaignResult: the skipped contacts left out of the remainder.
CampaignResult_SkipsRemain(SendReport, Proj, succ, skip, fail, nums, iter) ==
    [i |-> iter, total |-> Len(nums), successes |-> succ, fails |-> fail,
     skipped |-> skip, remaining |-> Len(nums) - (fail + succ)]

\* The tallies the last two console.log lines print.
CampaignResult(SendReport, Proj, succ, skip, fail, nums, iter) ==
    [i |-> iter, total |-> Len(nums), successes |-> succ, fails |-> fail,
     skipped |-> skip, remaining |-> Len(nums) - (fail + succ + skip)]

(* ------------------------------- Init --------------------------------- *)

\* value?.timestamp: undefined when there is no value.
OptionalTimestamp(res) == IF res.found THEN res.timestamp ELSE 0

InitRuns(A) ==
    /\ active = A
    /\ Agents \in 0..MaxAgents
    /\ MNumbers \in [RunIds -> {s \in SeqUpTo(RawNumbers, MaxContacts) : Ordered(s)}]
    /\ Project \in [RunIds -> Projects]
    /\ newChatsOnly \in [RunIds -> BOOLEAN]
    /\ \A r \in RunIds \ A :
          /\ MNumbers[r] = <<>>
          /\ Project[r].defined
          /\ newChatsOnly[r]
    \* lines 10-15: the locals, and the call of ShuffleMyArray
    /\ pc = [r \in RunIds |-> IF r \in A THEN "ShuffleMyArray" ELSE "idle"]
    /\ numbers = [r \in RunIds |-> <<>>]
    /\ i = [r \in RunIds |-> 0]
    /\ successes = [r \in RunIds |-> 0]
    /\ fails = [r \in RunIds |-> 0]
    /\ skipped = [r \in RunIds |-> 0]
    /\ AgentForIteration = [r \in RunIds |-> NaN]
    /\ WhatsAppBotClient = [r \in RunIds |-> undefined]
    /\ validatedContact = [r \in RunIds |-> "undefined"]
    /\ validatedChatResult = [r \in RunIds |-> NotFound]
    /\ returned = [r \in RunIds |-> undefined]
    /\ trace = [r \in RunIds |-> <<>>]
    /\ selected = [r \in RunIds |-> <<>>]
    /\ reports = [r \in RunIds |-> <<>>]

\* The collections setupDatabase creates (config.collections).
CollectionNames == {"properties", "users", "transactions"}

\* No message yet.
NoMsg == [type |-> "none", body |-> "", hasQuotedMsg |-> FALSE]

\* The calls of MessageAnalyzer that can wait for their handler while another
\* call runs.
Slots == {"s1"}

\* No call.
NoCall == [msg |-> NoMsg, fired |-> <<>>, step |-> 1, invoked |-> <<>>]

\* The router at rest, nothing routed and nothing in flight.
RouterAtRest ==
    /\ msg = NoMsg
    /\ rpc = "idle"
    /\ fired = <<>>
    /\ step = 1
    /\ invoked = <<>>
    /\ caught = 0
    /\ suspended = [s \in Slots |-> NoCall]
    /\ pending = 0
    /\ unhandled = 0
    /\ handled = 0

\* The calls of setupDatabase, and of the exported createIndexes(db) made
\* outside it, in the order they are made; they overlap at their awaits or
\* follow each other.
SetupRuns == {1, 2}

\* A call not made yet: no awaited call, no listing read, no count of the
\* summary read, nothing thrown, no promise.
NoSetup ==
    [fn |-> "setupDatabase", pc |-> "idle", collectionNames |-> {}, k |-> 1,
     summary |-> [c \in CollectionNames |-> 0], thrown |-> FALSE, promise |-> "none",
     after |-> {}]

\* No setup script going on, on an empty database.
DbAtRest ==
    /\ collections = {}
    /\ documents = [c \in CollectionNames |-> 0]
    /\ setup = [r \in SetupRuns |-> NoSetup]
    /\ setupLog = [r \in SetupRuns |-> <<>>]

\* No commission and no call of payCommission.
CommissionAtRest ==
    /\ commissions = <<>>
    /\ payments = <<>>
    /\ calls = <<>>

\* No time conversion going on.
TimeAtRest ==
    /\ inHrs = 0
    /\ inMin = 0
    /\ inSec = 0
    /\ milliseconds = 0
    /\ time = <<>>
    /\ tpc = "done"

UtilAtRest == DbAtRest /\ CommissionAtRest /\ TimeAtRest

\* No run of sendBroadcast, no message, the window open.
CoreAtRest ==
    /\ InitRuns({})
    /\ Agents = 0
    /\ ClientQuestionsArray = <<>>
    /\ ClientAnswersArray = <<>>
    /\ MyProjects = <<>>
    /\ RouterAtRest
    /\ permitted = TRUE

Init ==
    /\ InitRuns({"run1"})
    /\ ClientQuestionsArray = <<>>
    /\ ClientAnswersArray = <<>>
    /\ MyProjects = <<>>
    /\ RouterAtRest
    /\ permitted = TRUE
    /\ UtilAtRest

(* ------------------------------ actions ------------------------------- *)

\* The contact of the current iteration.
num(r) == numbers[r][i[r] + 1]

\* line 15: ShuffleMyArray resolves
ShuffleMyArrayReturns(r) ==
    /\ pc[r] = "ShuffleMyArray"
    /\ \E list \in ShuffleMyArray(MNumbers[r]) : numbers' = Upd(numbers, r, list)
    /\ pc' = Upd(pc, r, "for")
    /\ UNCHANGED <<args, i, successes, fails, skipped, AgentForIteration,
                   WhatsAppBotClient, validatedContact, validatedChatResult,
                   returned, trace, selected, reports>>

\* Variant of AgentIndex: the remainder taken by one more than the pool size.
AgentIndex_OffByOne(iter, agents) == JsRem(iter, agents + 1)

\* line 19: i%InputOne.Agents
AgentIndex(iter, agents) == JsRem(iter, agents)

\* lines 18-20: the loop takes the next entry and asks for its session
ForNext(r) ==
    /\ pc[r] = "for"
    /\ i[r] < Len(numbers[r])
    /\ AgentForIteration' = Upd(AgentForIteration, r, AgentIndex(i[r], Agents))
    /\ trace' = Upd(trace, r, Append(trace[r], <<"SelectingBotForCampaign", i[r]>>))
    /\ pc' = Upd(pc, r, "SelectingBotForCampaign")
    /\ UNCHANGED <<args, numbers, i, successes, fails, skipped,
                   WhatsAppBotClient, validatedContact, validatedChatResult,
                   returned, selected, reports>>

\* What the function resolves with.
ReturnValue(succ, fail, skip) == [successes |-> succ, fails |-> fail]

\* Variant of ForDone: the loop is left one entry before the end of the list.
ForDone_OneShort(r) ==
    /\ pc[r] = "for"
    /\ i[r] >= Len(numbers[r]) - 1
    /\ returned' = Upd(returned, r, ReturnValue(successes[r], fails[r], skipped[r]))
    /\ pc' = Upd(pc, r, "returned")
    /\ UNCHANGED <<args, numbers, i, successes, fails, skipped, AgentForIteration,
                   WhatsAppBotClient, validatedContact, validatedChatResult,
                   trace, selected, reports>>

\* lines 45-50: the list is exhausted
ForDone(r) ==
    /\ pc[r] = "for"
    /\ i[r] >= Len(numbers[r])
    /\ returned' = Upd(returned, r, ReturnValue(successes[r], fails[r], skipped[r]))
    /\ pc' = Upd(pc, r, "returned")
    /\ UNCHANGED <<args, numbers, i, successes, fails, skipped, AgentForIteration,
                   WhatsAppBotClient, validatedContact, validatedChatResult,
                   trace, selected, reports>>

\* line 20 raises, outside the try: sendBroadcast rejects
SelectingBotRaises(r) ==
    /\ pc[r] = "SelectingBotForCampaign"
    /\ SelectingBotForCampaignRaises(AgentForIteration[r])
    /\ pc' = Upd(pc, r, "rejected")
    /\ UNCHANGED <<args, numbers, i, successes, fails, skipped, AgentForIteration,
                   WhatsAppBotClient, validatedContact, validatedChatResult,
                   returned, trace, selected, reports>>

\* lines 20-27: the session is there; validate the number, probe its chat
SelectingBotReturns(r) ==
    /\ pc[r] = "SelectingBotForCampaign"
    /\ ~SelectingBotForCampaignRaises(AgentForIteration[r])
    /\ WhatsAppBotClient' =
          Upd(WhatsAppBotClient, r, SelectingBotForCampaign(AgentForIteration[r]))
    /\ selected' = Upd(selected, r, Append(selected[r], AgentForIteration[r]))
    /\ validatedContact' = Upd(validatedContact, r, validateNumberWithCountryCode(num(r)))
    /\ trace' = Upd(trace, r, Append(trace[r], <<"findAndCheckChat", i[r]>>))
    /\ pc' = Upd(pc, r, "findAndCheckChat")
    /\ UNCHANGED <<args, numbers, i, successes, fails, skipped, AgentForIteration,
                   validatedChatResult, returned, reports>>

\* Variant of SkipContact: the run mode is not looked at.
SkipContact_AnyMode(only, res) == Truthy(OptionalTimestamp(res))

\* Variant of SkipContact: the test of the timestamp inverted.
SkipContact_Inverted(only, res) == only /\ ~Truthy(OptionalTimestamp(res))

\* line 28-29: the contact is passed over
SkipContact(only, res) == only /\ Truthy(OptionalTimestamp(res))

\* line 32: continue, straight to the next entry of the list
Continue(r, tr) ==
    /\ trace' = Upd(trace, r, tr)
    /\ i' = Upd(i, r, i[r] + 1)
    /\ pc' = Upd(pc, r, "for")

\* lines 27-35: the probe resolves; skip the contact or send to it
findAndCheckChatReturns(r) ==
    /\ pc[r] = "findAndCheckChat"
    /\ \E res \in findAndCheckChat(validatedContact[r]) :
          LET tr == Append(trace[r], <<IF res.found THEN "Found" ELSE "NotFound", i[r]>>)
          IN /\ validatedChatResult' = Upd(validatedChatResult, r, res)
             /\ IF SkipContact(newChatsOnly[r], res)
                THEN /\ skipped' = Upd(skipped, r, skipped[r] + 1)
                     /\ Continue(r, Append(tr, <<"skipped++", i[r]>>))
                ELSE /\ trace' = Upd(trace, r, Append(tr, <<"sendMessage", i[r]>>))
                     /\ pc' = Upd(pc, r, "sendMessage")
                     /\ UNCHANGED <<skipped, i>>
    /\ UNCHANGED <<args, numbers, successes, fails, AgentForIteration,
                   WhatsAppBotClient, validatedContact, returned, selected, reports>>

\* Variant of Catch: the error is thrown again and ends the run.
Catch_Rethrow(r, tr) ==
    /\ trace' = Upd(trace, r, tr)
    /\ pc' = Upd(pc, r, "rejected")
    /\ UNCHANGED <<fails, i>>

\* lines 38-43: the catch block, then the call of the throttle
Catch(r, tr) ==
    /\ fails' = Upd(fails, r, fails[r] + 1)
    /\ trace' = Upd(trace, r, Append2(tr, <<"fails++", i[r]>>,
                          <<"SleepTimeOfficialHoursWithRandomDelay", i[r]>>))
    /\ pc' = Upd(pc, r, "SleepTimeOfficialHoursWithRandomDelay")
    /\ UNCHANGED i

\* line 27 raises inside the try
findAndCheckChatRaises(r) ==
    /\ pc[r] = "findAndCheckChat"
    /\ Catch(r, Append(trace[r], <<"ProbeUnavailable", i[r]>>))
    /\ UNCHANGED <<args, numbers, successes, skipped, AgentForIteration,
                   WhatsAppBotClient, validatedContact, validatedChatResult,
                   returned, selected, reports>>

\* line 35 raises inside the try
sendMessageRaises(r) ==
    /\ pc[r] = "sendMessage"
    /\ Catch(r, Append(trace[r], <<"TransportError", i[r]>>))
    /\ UNCHANGED <<args, numbers, successes, skipped, AgentForIteration,
                   WhatsAppBotClient, validatedContact, validatedChatResult,
                   returned, selected, reports>>

\* lines 35-43: the send is acknowledged; count it, report, call the throttle
sendMessageReturns(r) ==
    /\ pc[r] = "sendMessage"
    /\ successes' = Upd(successes, r, successes[r] + 1)
    /\ LET SendReport == sendMessage(WhatsAppBotClient[r], validatedContact[r],
                                     AfternoonMessage)
           tr == Append2(Append(trace[r], <<"DeliveryReceipt", i[r]>>),
                         <<"successes++", i[r]>>, <<"CampaignResult", i[r]>>)
       IN IF CampaignResultRaises(SendReport, Project[r])
          THEN /\ Catch(r, Append(tr, <<"TypeError", i[r]>>))
               /\ UNCHANGED reports
          ELSE /\ reports' = Upd(reports, r, Append(reports[r],
                     CampaignResult(SendReport, Project[r], successes[r] + 1,
                                    skipped[r], fails[r], numbers[r], i[r])))
               /\ trace' = Upd(trace, r,
                     Append(tr, <<"SleepTimeOfficialHoursWithRandomDelay", i[r]>>))
               /\ pc' = Upd(pc, r, "SleepTimeOfficialHoursWithRandomDelay")
               /\ UNCHANGED <<fails, i>>
    /\ UNCHANGED <<args, numbers, skipped, AgentForIteration,
                   WhatsAppBotClient, validatedContact, validatedChatResult,
                   returned, selected>>

\* Variant of SleepReturns: a contact whose send failed is tried once more.
SleepReturns_Retry(r) ==
    /\ pc[r] = "SleepTimeOfficialHoursWithRandomDelay"
    /\ i' = Upd(i, r,
               IF /\ \E n \in DOMAIN trace[r] : trace[r][n] = <<"TransportError", i[r]>>
                  /\ Cardinality({n \in DOMAIN trace[r] :
                                     trace[r][n] = <<"sendMessage", i[r]>>}) < 2
               THEN i[r]
               ELSE i[r] + 1)
    /\ pc' = Upd(pc, r, "for")
    /\ UNCHANGED <<args, numbers, successes, fails, skipped, AgentForIteration,
                   WhatsAppBotClient, validatedContact, validatedChatResult,
                   returned, trace, selected, reports>>

\* lines 43-44: the throttle resolves; on to the next entry
SleepReturns(r) ==
    /\ pc[r] = "SleepTimeOfficialHoursWithRandomDelay"
    /\ i' = Upd(i, r, i[r] + 1)
    /\ pc' = Upd(pc, r, "for")
    /\ UNCHANGED <<args, numbers, successes, fails, skipped, AgentForIteration,
                   WhatsAppBotClient, validatedContact, validatedChatResult,
                   returned, trace, selected, reports>>

Next ==
    \/ \E r \in active : ShuffleMyArrayReturns(r) /\ UNCHANGED <<routerVars, permitted, utilVars>>
    \/ \E r \in active : ForNext(r) /\ UNCHANGED <<routerVars, permitted, utilVars>>
    \/ \E r \in active : ForDone(r) /\ UNCHANGED <<routerVars, permitted, utilVars>>
    \/ \E r \in active : SelectingBotRaises(r) /\ UNCHANGED <<routerVars, permitted, utilVars>>
    \/ \E r \in active : SelectingBotReturns(r) /\ UNCHANGED <<routerVars, permitted, utilVars>>
    \/ \E r \in active : findAndCheckChatReturns(r) /\ UNCHANGED <<routerVars, permitted, utilVars>>
    \/ \E r \in active : findAndCheckChatRaises(r) /\ UNCHANGED <<routerVars, permitted, utilVars>>
    \/ \E r \in active : sendMessageRaises(r) /\ UNCHANGED <<routerVars, permitted, utilVars>>
    \/ \E r \in active : sendMessageReturns(r) /\ UNCHANGED <<routerVars, permitted, utilVars>>
    \/ \E r \in active : SleepReturns(r) /\ UNCHANGED <<routerVars, permitted, utilVars>>

Spec == Init /\ [][Next]_vars

\* Every awaited call of the run eventually returns or raises.
FairSpec == Init /\ [][Next]_vars /\ WF_vars(Next)

(* ---------------------- two runs at the same time ---------------------- *)

\* sendBroadcast called twice before either call has resolved; the steps of
\* the two calls interleave at their awaits.
TwoRunsInit ==
    /\ InitRuns(RunIds)
    /\ \A r \in RunIds : Len(MNumbers[r]) <= MaxConcurrentContacts
    /\ ClientQuestionsArray = <<>>
    /\ ClientAnswersArray = <<>>
    /\ MyProjects = <<>>
    /\ RouterAtRest
    /\ permitted = TRUE
    /\ UtilAtRest

TwoRunsSpec == TwoRunsInit /\ [][Next]_vars

(* -------------------- a probe that reads the history ------------------- *)
(* findAndCheckChat answers from the chats of the session it is given: a   *)
(* session has a chat with a contact once it has delivered a message to    *)
(* it.  The sessions start without chats and the probe does not fail.      *)

\* The session of this iteration has delivered to this contact before.
AlreadySent(r) ==
    \E j \in 0..(i[r] - 1) :
        /\ \E n \in DOMAIN trace[r] : trace[r][n] = <<"DeliveryReceipt", j>>
        /\ selected[r][j + 1] = AgentForIteration[r]
        /\ validateNumberWithCountryCode(numbers[r][j + 1]) = validatedContact[r]

DedupInit ==
    /\ Init
    /\ Agents >= 1

\* line 27 resolves with what the chats of the session say
HistoryProbeReturns(r) ==
    /\ findAndCheckChatReturns(r)
    /\ validatedChatResult'[r].found = AlreadySent(r)

DedupNext ==
    \/ \E r \in active : ShuffleMyArrayReturns(r) /\ UNCHANGED <<routerVars, permitted, utilVars>>
    \/ \E r \in active : ForNext(r) /\ UNCHANGED <<routerVars, permitted, utilVars>>
    \/ \E r \in active : ForDone(r) /\ UNCHANGED <<routerVars, permitted, utilVars>>
    \/ \E r \in active : SelectingBotReturns(r) /\ UNCHANGED <<routerVars, permitted, utilVars>>
    \/ \E r \in active : HistoryProbeReturns(r) /\ UNCHANGED <<routerVars, permitted, utilVars>>
    \/ \E r \in active : sendMessageRaises(r) /\ UNCHANGED <<routerVars, permitted, utilVars>>
    \/ \E r \in active : sendMessageReturns(r) /\ UNCHANGED <<routerVars, permitted, utilVars>>
    \/ \E r \in active : SleepReturns(r) /\ UNCHANGED <<routerVars, permitted, utilVars>>

DedupSpec == DedupInit /\ [][DedupNext]_vars

(* ------------------------- the sending window -------------------------- *)
(* The throttle is not part of the sources at hand.  It is modelled by its  *)
(* contract, in the way most favourable to the caller: it resolves only     *)
(* while the time is inside the allowed window.                             *)

\* A run started at any time of the day.
WindowInit ==
    /\ InitRuns({"run1"})
    /\ Agents >= 1
    /\ ClientQuestionsArray = <<>>
    /\ ClientAnswersArray = <<>>
    /\ MyProjects = <<>>
    /\ RouterAtRest
    /\ permitted \in BOOLEAN
    /\ UtilAtRest

\* The allowed window ends.
WindowCloses ==
    /\ permitted
    /\ permitted' = FALSE
    /\ UNCHANGED <<runVars, routerVars, utilVars>>

\* The allowed window begins.
WindowOpens ==
    /\ ~permitted
    /\ permitted' = TRUE
    /\ UNCHANGED <<runVars, routerVars, utilVars>>

\* SleepTimeOfficialHoursWithRandomDelay resolves inside the window only.
OfficialHoursSleepReturns(r) == permitted /\ SleepReturns(r)

WindowNext ==
    \/ \E r \in active : ShuffleMyArrayReturns(r) /\ UNCHANGED <<routerVars, permitted, utilVars>>
    \/ \E r \in active : ForNext(r) /\ UNCHANGED <<routerVars, permitted, utilVars>>
    \/ \E r \in active : ForDone(r) /\ UNCHANGED <<routerVars, permitted, utilVars>>
    \/ \E r \in active : SelectingBotReturns(r) /\ UNCHANGED <<routerVars, permitted, utilVars>>
    \/ \E r \in active : findAndCheckChatReturns(r) /\ UNCHANGED <<routerVars, permitted, utilVars>>
    \/ \E r \in active : findAndCheckChatRaises(r) /\ UNCHANGED <<routerVars, permitted, utilVars>>
    \/ \E r \in active : sendMessageRaises(r) /\ UNCHANGED <<routerVars, permitted, utilVars>>
    \/ \E r \in active : sendMessageReturns(r) /\ UNCHANGED <<routerVars, permitted, utilVars>>
    \/ \E r \in active : OfficialHoursSleepReturns(r) /\ UNCHANGED <<routerVars, permitted, utilVars>>
    \/ WindowCloses
    \/ WindowOpens

WindowSpec == WindowInit /\ [][WindowNext]_vars

(* ---------------------------- setupDatabase ---------------------------- *)

\* Object.entries(config.collections), in the order of the configuration.
CollectionOrder == <<"properties", "users", "transactions">>

\* The lengths of sampleProperties (seed-data/properties.seed.js, 3 entries),
\* sampleUsers (seed-data/users.seed.js, 5 entries) and sampleTransactions
\* (its file is not in the sources; part_004, line 146 names 2).
SeedLength == [properties |-> 3, users |-> 5, transactions |-> 2]

\* A database as the first run may find it.
SetupInit ==
    /\ CoreAtRest
    /\ CommissionAtRest
    /\ TimeAtRest
    /\ collections \in SUBSET CollectionNames
    /\ documents \in [CollectionNames -> 0..MaxOldDocuments]
    /\ \A c \in CollectionNames : c \notin collections => documents[c] = 0
    /\ setup = [r \in SetupRuns |-> NoSetup]
    /\ setupLog = [r \in SetupRuns |-> <<>>]

\* The console of run r with one more line.
Logged(r, ev, arg) == [setupLog EXCEPT ![r] = Append(@, [ev |-> ev, arg |-> arg])]

\* Run r has printed line 79: collections and seeds are in place.
Succeeded(r) == \E n \in DOMAIN setupLog[r] : setupLog[r][n].ev = "succeeded"

\* The first entry from k on that the listing does not include, or 4.
NextMissing(k, names) ==
    IF \E j \in k..3 : CollectionOrder[j] \notin names
    THEN CHOOSE j \in k..3 :
             /\ CollectionOrder[j] \notin names
             /\ \A h \in k..(j - 1) : CollectionOrder[h] \in names
    ELSE 4

\* lines 32-43: on to the next collection to create, or to the indexes
AfterCollection(r, k, names) ==
    IF NextMissing(k, names) <= 3
    THEN [setup EXCEPT ![r].pc = "createCollection", ![r].collectionNames = names,
                       ![r].k = NextMissing(k, names)]
    ELSE [setup EXCEPT ![r].pc = "createIndexes", ![r].collectionNames = names, ![r].k = 1]

\* Variant of SeedNeeded: the seed is inserted whatever the collection holds.
SeedNeeded_Always(existing) == TRUE

\* lines 52, 62, 72: the collection is empty
SeedNeeded(existing) == existing = 0

\* lines 57-60, 67-70, 77-82: on to the next collection to seed, or to the
\* first count of the summary
AfterSeed(r, k) ==
    IF k < 3 THEN [setup EXCEPT ![r].pc = "countDocuments", ![r].k = k + 1]
    ELSE [setup EXCEPT ![r].pc = "summary", ![r].k = 1]

\* line 79: after the third seed "Database setup completed successfully!" is
\* printed, before the counts of the summary are read
AfterSeedLog(r, k, log) ==
    IF k < 3 THEN log
    ELSE [log EXCEPT ![r] = Append(@, [ev |-> "succeeded", arg |-> ""])]

\* lines 86-88: the catch block prints the error and throws it again
Failed(r, log) == [log EXCEPT ![r] = Append(@, [ev |-> "failed", arg |-> ""])]

\* lines 18-21: new MongoClient(uri, config.options) returns the client and
\* client.connect() is awaited
MongoClientReturns(r) ==
    /\ setup' = [setup EXCEPT ![r] =
          [NoSetup EXCEPT !.pc = "connect", !.promise = "running",
                          !.after = {q \in SetupRuns : Succeeded(q)}]]
    /\ UNCHANGED setupLog

\* line 20 raises inside the try, before any await: the catch block prints
\* the error (line 87) and throws it again, client is still undefined at
\* line 90, so close() is not called and its line is not printed; the
\* promise of setupDatabase is rejected in the step that started the call
MongoClientRaises(r) ==
    /\ setup' = [setup EXCEPT ![r] =
          [NoSetup EXCEPT !.pc = "idle", !.promise = "rejected", !.thrown = TRUE,
                          !.after = {q \in SetupRuns : Succeeded(q)}]]
    /\ setupLog' = Failed(r, setupLog)

\* lines 11-21: setupDatabase is called, by the script or by a caller of the
\* export, also while earlier runs are at their awaits, and runs to its
\* first await or to the throw of the constructor. The record keeps, in
\* "after", the runs that had printed line 79 by then.
SetupStarts(r) ==
    /\ setup[r].promise = "none"
    /\ \A q \in SetupRuns : q < r => setup[q].promise # "none"
    /\ \/ MongoClientReturns(r)
       \/ MongoClientRaises(r)
    /\ UNCHANGED <<collections, documents>>

\* lines 21-29
ConnectReturns(r) ==
    /\ setup[r].pc = "connect"
    /\ setup' = [setup EXCEPT ![r].pc = "listCollections"]
    /\ UNCHANGED <<collections, documents, setupLog>>

\* lines 29-34
ListCollectionsReturns(r) ==
    /\ setup[r].pc = "listCollections"
    /\ setup' = AfterCollection(r, 1, collections)
    /\ UNCHANGED <<collections, documents, setupLog>>

\* lines 34-39; the collection may be there by now, created by another run
\* after this one read the listing
CreateCollectionReturns(r) ==
    /\ setup[r].pc = "createCollection"
    /\ collections' = collections \cup {CollectionOrder[setup[r].k]}
    /\ setupLog' = Logged(r, "createCollection", CollectionOrder[setup[r].k])
    /\ setup' = AfterCollection(r, setup[r].k + 1, setup[r].collectionNames)
    /\ UNCHANGED documents

\* createIndexes (part_007, lines 97-138), awaited at line 43 of setupDatabase
\* or called by itself: createIndex is awaited for the 18 indexes of
\* properties, the 10 of users and the 14 of transactions in turn. The call
\* is at k = 1, 2, 3 until the first createIndex on collection k has returned
\* and at k = 4 from then to the last; the returns in between change nothing.

\* part_007, lines 103, 114, 125: the first createIndex on a collection
\* returns. It adds no document; a MongoDB server creates the collection it
\* names when it is missing, another back end may leave it missing.
CreateIndexReturns(r) ==
    /\ setup[r].pc = "createIndexes"
    /\ setup[r].k <= 3
    /\ \E created \in {collections, collections \cup {CollectionOrder[setup[r].k]}} :
          collections' = created
    /\ setup' = [setup EXCEPT ![r].k = @ + 1]
    /\ UNCHANGED <<documents, setupLog>>

\* part_007, lines 131-133, and lines 43-51 of setupDatabase: the last
\* createIndex has returned, createIndexes resolves and the first count is
\* awaited
CreateIndexesReturns(r) ==
    /\ setup[r].fn = "setupDatabase"
    /\ setup[r].pc = "createIndexes"
    /\ setup[r].k = 4
    /\ setup' = [setup EXCEPT ![r].pc = "countDocuments", ![r].k = 1]
    /\ UNCHANGED <<collections, documents, setupLog>>

\* part_007, lines 97-103: createIndexes(db) is called outside setupDatabase,
\* also while calls of setupDatabase are at their awaits
CreateIndexesStarts(c) ==
    /\ setup[c].promise = "none"
    /\ \A q \in SetupRuns : q < c => setup[q].promise # "none"
    /\ setup' = [setup EXCEPT ![c] =
          [NoSetup EXCEPT !.fn = "createIndexes", !.pc = "createIndexes",
                          !.promise = "running",
                          !.after = {q \in SetupRuns : Succeeded(q)}]]
    /\ UNCHANGED <<collections, documents, setupLog>>

\* part_007, lines 131-133: the call made outside setupDatabase resolves
CreateIndexesResolves(c) ==
    /\ setup[c].fn = "createIndexes"
    /\ setup[c].pc = "createIndexes"
    /\ setup[c].k = 4
    /\ setup' = [setup EXCEPT ![c].pc = "idle", ![c].promise = "resolved"]
    /\ UNCHANGED <<collections, documents, setupLog>>

\* part_007, lines 134-137: a createIndex raises in the call made outside
\* setupDatabase; the error is printed and thrown again
CreateIndexesRejects(c) ==
    /\ setup[c].fn = "createIndexes"
    /\ setup[c].pc = "createIndexes"
    /\ setup' = [setup EXCEPT ![c].pc = "idle", ![c].thrown = TRUE,
                              ![c].promise = "rejected"]
    /\ UNCHANGED <<collections, documents, setupLog>>

\* lines 51-57, 61-67, 71-79: the count is there; insert the seed or go on
CountDocumentsReturns(r) ==
    /\ setup[r].pc = "countDocuments"
    /\ IF SeedNeeded(documents[CollectionOrder[setup[r].k]])
       THEN /\ setup' = [setup EXCEPT ![r].pc = "insertMany"]
            /\ UNCHANGED setupLog
       ELSE /\ setup' = AfterSeed(r, setup[r].k)
            /\ setupLog' = AfterSeedLog(r, setup[r].k, setupLog)
    /\ UNCHANGED <<collections, documents>>

\* lines 53-54, 63-64, 73-79: every document of the seed is inserted,
\* whatever the collection holds by now
InsertManyReturns(r) ==
    /\ setup[r].pc = "insertMany"
    /\ LET c == CollectionOrder[setup[r].k]
       IN /\ documents' = [documents EXCEPT ![c] = @ + SeedLength[c]]
          /\ collections' = collections \cup {c}
          /\ setupLog' = AfterSeedLog(r, setup[r].k, Logged(r, "insertMany", c))
    /\ setup' = AfterSeed(r, setup[r].k)

\* lines 53, 63, 73 raise: an ordered insertMany stops at the first document
\* that is refused, the ones before it are in the collection; it may also
\* raise after the last document was written (the acknowledgement is lost).
\* The "Inserted" line is not printed
InsertManyRaises(r) ==
    /\ setup[r].pc = "insertMany"
    /\ LET c == CollectionOrder[setup[r].k]
       IN \E done \in 0..SeedLength[c] :
             /\ documents' = [documents EXCEPT ![c] = @ + done]
             /\ collections' = IF done > 0 THEN collections \cup {c} ELSE collections
    /\ setupLog' = Failed(r, setupLog)
    /\ setup' = [setup EXCEPT ![r].pc = "close", ![r].thrown = TRUE]

\* any other awaited call of the try block raises (lines 21, 29, 34, 43, 51,
\* 61, 71, 82-84)
SetupCallRaises(r) ==
    /\ setup[r].fn = "setupDatabase"
    /\ setup[r].pc \in {"connect", "listCollections", "createCollection", "createIndexes",
                        "countDocuments", "summary"}
    /\ setupLog' = Failed(r, setupLog)
    /\ setup' = [setup EXCEPT ![r].pc = "close", ![r].thrown = TRUE]
    /\ UNCHANGED <<collections, documents>>

\* lines 82, 83, 84: one count of the summary returns and is printed; after
\* the third the try block is left and client.close() is awaited (line 91)
SummaryCountReturns(r) ==
    /\ setup[r].pc = "summary"
    /\ LET c == CollectionOrder[setup[r].k]
           counts == [setup[r].summary EXCEPT ![c] = documents[c]]
       IN IF setup[r].k < 3
          THEN /\ setup' = [setup EXCEPT ![r].k = @ + 1, ![r].summary = counts]
               /\ UNCHANGED setupLog
          ELSE /\ setup' = [setup EXCEPT ![r].pc = "close", ![r].k = 1,
                                         ![r].summary = counts]
               /\ setupLog' = Logged(r, "completed", counts)
    /\ UNCHANGED <<collections, documents>>

\* lines 91-95: client.close() returns, "Database connection closed." is
\* printed and the promise of setupDatabase settles
CloseReturns(r) ==
    /\ setup[r].pc = "close"
    /\ setupLog' = Logged(r, "closed", "")
    /\ setup' = [setup EXCEPT ![r].pc = "idle",
                              ![r].promise = IF setup[r].thrown THEN "rejected"
                                             ELSE "resolved"]
    /\ UNCHANGED <<collections, documents>>

\* line 91 raises: the error of client.close() leaves the finally block and
\* the promise of setupDatabase is rejected with it
CloseRaises(r) ==
    /\ setup[r].pc = "close"
    /\ setup' = [setup EXCEPT ![r].pc = "idle", ![r].promise = "rejected"]
    /\ UNCHANGED <<collections, documents, setupLog>>

SetupNext ==
    \/ \E r \in SetupRuns : SetupStarts(r) /\ UNCHANGED <<runVars, routerVars, permitted, commissionVars, timeVars>>
    \/ \E r \in SetupRuns : ConnectReturns(r) /\ UNCHANGED <<runVars, routerVars, permitted, commissionVars, timeVars>>
    \/ \E r \in SetupRuns : ListCollectionsReturns(r) /\ UNCHANGED <<runVars, routerVars, permitted, commissionVars, timeVars>>
    \/ \E r \in SetupRuns : CreateCollectionReturns(r) /\ UNCHANGED <<runVars, routerVars, permitted, commissionVars, timeVars>>
    \/ \E r \in SetupRuns : CreateIndexReturns(r) /\ UNCHANGED <<runVars, routerVars, permitted, commissionVars, timeVars>>
    \/ \E r \in SetupRuns : CreateIndexesReturns(r) /\ UNCHANGED <<runVars, routerVars, permitted, commissionVars, timeVars>>
    \/ \E c \in SetupRuns : CreateIndexesStarts(c) /\ UNCHANGED <<runVars, routerVars, permitted, commissionVars, timeVars>>
    \/ \E c \in SetupRuns : CreateIndexesResolves(c) /\ UNCHANGED <<runVars, routerVars, permitted, commissionVars, timeVars>>
    \/ \E c \in SetupRuns : CreateIndexesRejects(c) /\ UNCHANGED <<runVars, routerVars, permitted, commissionVars, timeVars>>
    \/ \E r \in SetupRuns : CountDocumentsReturns(r) /\ UNCHANGED <<runVars, routerVars, permitted, commissionVars, timeVars>>
    \/ \E r \in SetupRuns : InsertManyReturns(r) /\ UNCHANGED <<runVars, routerVars, permitted, commissionVars, timeVars>>
    \/ \E r \in SetupRuns : InsertManyRaises(r) /\ UNCHANGED <<runVars, routerVars, permitted, commissionVars, timeVars>>
    \/ \E r \in SetupRuns : SetupCallRaises(r) /\ UNCHANGED <<runVars, routerVars, permitted, commissionVars, timeVars>>
    \/ \E r \in SetupRuns : SummaryCountReturns(r) /\ UNCHANGED <<runVars, routerVars, permitted, commissionVars, timeVars>>
    \/ \E r \in SetupRuns : CloseReturns(r) /\ UNCHANGED <<runVars, routerVars, permitted, commissionVars, timeVars>>
    \/ \E r \in SetupRuns : CloseRaises(r) /\ UNCHANGED <<runVars, routerVars, permitted, commissionVars, timeVars>>

SetupSpec == SetupInit /\ [][SetupNext]_vars

(* ---------------------------- payCommission ---------------------------- *)

CommissionIds == {"c1", "c2"}

\* The calls that interleave: p1 of payCommission on a new CommissionService,
\* p2 of the same or of recordPayment on a new CommissionRepository.
CallIds == {"p1", "p2"}

\* The status of a commission; "missing": there is no such row.
Statuses == {"missing", "pending", "approved", "paid", "disputed"}

\* commission.amount of every commission.
CommissionAmount == 2

\* The public functions that record a payment: CommissionService.payCommission
\* and CommissionRepository.recordPayment itself.
PaymentFunctions == {"payCommission", "recordPayment"}

\* Where a call of fn starts: payCommission needs new CommissionService(),
\* whose field initialiser (line 233) calls getRepositories(); recordPayment
\* starts with the await of getRemainingBalance.
FirstStep(fn) == IF fn = "payCommission" THEN "getRepositories" ELSE "getRemainingBalance"

CommissionInit ==
    /\ CoreAtRest
    /\ DbAtRest
    /\ TimeAtRest
    /\ commissions \in [CommissionIds -> Statuses]
    /\ payments = <<>>
    /\ calls \in [CallIds -> [fn : PaymentFunctions,
                               pc : {"getRepositories", "getRemainingBalance"},
                               commissionId : CommissionIds,
                               amount : 1..MaxAmount,
                               remaining : {0}, error : {""}]]
    /\ \A c \in CallIds : calls[c].pc = FirstStep(calls[c].fn)
    /\ calls["p1"].fn = "payCommission"

\* getRepositories of repositories/index.ts (DATABASE_CRUD_IMPLEMENTATION.md,
\* lines 1355-1391): the module only re-exports ProjectRepository ...
\* MessageRepository (export { X } from "./X" binds no local name), so
\* new ProjectRepository() on line 1374 raises a ReferenceError on every call.
\* new CommissionService() raises with it (line 233) and payCommission is
\* never entered: findById is not called and nothing is written.
GetRepositoriesRaises(c) ==
    /\ calls[c].pc = "getRepositories"
    /\ calls' = [calls EXCEPT ![c] =
          [@ EXCEPT !.pc = "rejected",
                    !.error = "ReferenceError: ProjectRepository is not defined"]]
    /\ UNCHANGED <<commissions, payments>>

\* What was paid on the commission so far.
Paid(id) ==
    LET on == SelectSeq(payments, LAMBDA p : p.commissionId = id)
        sum[n \in 0..Len(on)] == IF n = 0 THEN 0 ELSE sum[n - 1] + on[n].amount
    IN sum[Len(on)]

\* getRemainingBalance of the repository: amount minus payments, 0 for none
getRemainingBalance(id) ==
    IF commissions[id] = "missing" THEN 0 ELSE CommissionAmount - Paid(id)

\* recordPayment of the repository: the balance is read before the transaction
GetRemainingBalanceReturns(c) ==
    /\ calls[c].pc = "getRemainingBalance"
    /\ calls' = [calls EXCEPT ![c] =
          [@ EXCEPT !.pc = "$transaction",
                    !.remaining = getRemainingBalance(calls[c].commissionId)]]
    /\ UNCHANGED <<commissions, payments>>

\* recordPayment of the repository: the payment is created and the status
\* updated in one transaction; an update of a row that is not there fails.
\* The record keeps, in "on", the status the commission had when the
\* transaction committed.
TransactionCommits(c) ==
    /\ calls[c].pc = "$transaction"
    /\ commissions[calls[c].commissionId] # "missing"
    /\ payments' = Append(payments, [commissionId |-> calls[c].commissionId,
                                      amount |-> calls[c].amount, by |-> c,
                                      on |-> commissions[calls[c].commissionId]])
    /\ commissions' = [commissions EXCEPT ![calls[c].commissionId] =
          IF calls[c].amount >= calls[c].remaining THEN "paid" ELSE "pending"]
    /\ calls' = [calls EXCEPT ![c] = [@ EXCEPT !.pc = "resolved"]]

\* an awaited call of the repository raises; nothing is written
RepositoryRaises(c) ==
    /\ calls[c].pc \in {"getRemainingBalance", "$transaction"}
    /\ calls' = [calls EXCEPT ![c] = [@ EXCEPT !.pc = "rejected", !.error = "database"]]
    /\ UNCHANGED <<commissions, payments>>

\* The statuses a row can be written with.
RowStatuses == Statuses \ {"missing"}

\* The commissions that have payments: the relation of CommissionPayment is
\* required and names no onDelete, so these are not deleted.
HasPayments(id) == \E n \in DOMAIN payments : payments[n].commissionId = id

\* create of BaseRepository: a commission is created with the status in data
CreateReturns(id, status) ==
    /\ commissions[id] = "missing"
    /\ status \in RowStatuses
    /\ commissions' = [commissions EXCEPT ![id] = status]
    /\ UNCHANGED <<payments, calls>>

\* createMany of BaseRepository: the rows of data are created in one query,
\* each with its status; rows that exist are skipped (skipDuplicates)
CreateManyReturns(data) ==
    /\ DOMAIN data # {}
    /\ \E id \in DOMAIN data : commissions[id] = "missing"
    /\ commissions' = [id \in CommissionIds |->
          IF id \in DOMAIN data /\ commissions[id] = "missing" THEN data[id]
          ELSE commissions[id]]
    /\ UNCHANGED <<payments, calls>>

\* approve of the repository: the status becomes approved, whatever it was
ApproveReturns(id) ==
    /\ commissions[id] # "missing"
    /\ commissions' = [commissions EXCEPT ![id] = "approved"]
    /\ UNCHANGED <<payments, calls>>

\* dispute of the repository: the status becomes disputed, whatever it was
DisputeReturns(id) ==
    /\ commissions[id] # "missing"
    /\ commissions' = [commissions EXCEPT ![id] = "disputed"]
    /\ UNCHANGED <<payments, calls>>

\* update of BaseRepository: the status becomes the one in data
UpdateReturns(id, status) ==
    /\ commissions[id] # "missing"
    /\ status \in RowStatuses
    /\ commissions' = [commissions EXCEPT ![id] = status]
    /\ UNCHANGED <<payments, calls>>

\* updateMany of BaseRepository: every row the condition selects gets the
\* status in data, in one query
UpdateManyReturns(where, status) ==
    /\ \E id \in where : commissions[id] # "missing"
    /\ status \in RowStatuses
    /\ commissions' = [id \in CommissionIds |->
          IF id \in where /\ commissions[id] # "missing" THEN status ELSE commissions[id]]
    /\ UNCHANGED <<payments, calls>>

\* upsert of BaseRepository: the row is created with the status of create
\* when it is not there, and gets the status of update when it is
UpsertReturns(id, create, update) ==
    /\ create \in RowStatuses
    /\ update \in RowStatuses
    /\ commissions' = [commissions EXCEPT ![id] =
          IF commissions[id] = "missing" THEN create ELSE update]
    /\ UNCHANGED <<payments, calls>>

\* delete of BaseRepository: the row is removed
DeleteReturns(id) ==
    /\ commissions[id] # "missing"
    /\ ~HasPayments(id)
    /\ commissions' = [commissions EXCEPT ![id] = "missing"]
    /\ UNCHANGED <<payments, calls>>

\* deleteMany of BaseRepository: the rows the condition selects are removed in
\* one query
DeleteManyReturns(where) ==
    /\ \E id \in where : commissions[id] # "missing"
    /\ \A id \in where : ~HasPayments(id)
    /\ commissions' = [id \in CommissionIds |->
          IF id \in where THEN "missing" ELSE commissions[id]]
    /\ UNCHANGED <<payments, calls>>

CommissionNext ==
    \/ \E c \in CallIds : GetRepositoriesRaises(c) /\ UNCHANGED <<runVars, routerVars, permitted, dbVars, timeVars>>
    \/ \E c \in CallIds : GetRemainingBalanceReturns(c) /\ UNCHANGED <<runVars, routerVars, permitted, dbVars, timeVars>>
    \/ \E c \in CallIds : TransactionCommits(c) /\ UNCHANGED <<runVars, routerVars, permitted, dbVars, timeVars>>
    \/ \E c \in CallIds : RepositoryRaises(c) /\ UNCHANGED <<runVars, routerVars, permitted, dbVars, timeVars>>
    \/ \E id \in CommissionIds, status \in RowStatuses : CreateReturns(id, status) /\ UNCHANGED <<runVars, routerVars, permitted, dbVars, timeVars>>
    \/ \E ids \in SUBSET CommissionIds : \E data \in [ids -> RowStatuses] :
          CreateManyReturns(data) /\ UNCHANGED <<runVars, routerVars, permitted, dbVars, timeVars>>
    \/ \E id \in CommissionIds : ApproveReturns(id) /\ UNCHANGED <<runVars, routerVars, permitted, dbVars, timeVars>>
    \/ \E id \in CommissionIds : DisputeReturns(id) /\ UNCHANGED <<runVars, routerVars, permitted, dbVars, timeVars>>
    \/ \E id \in CommissionIds, status \in RowStatuses : UpdateReturns(id, status) /\ UNCHANGED <<runVars, routerVars, permitted, dbVars, timeVars>>
    \/ \E where \in SUBSET CommissionIds, status \in RowStatuses :
          UpdateManyReturns(where, status) /\ UNCHANGED <<runVars, routerVars, permitted, dbVars, timeVars>>
    \/ \E id \in CommissionIds, create \in RowStatuses, update \in RowStatuses :
          UpsertReturns(id, create, update) /\ UNCHANGED <<runVars, routerVars, permitted, dbVars, timeVars>>
    \/ \E id \in CommissionIds : DeleteReturns(id) /\ UNCHANGED <<runVars, routerVars, permitted, dbVars, timeVars>>
    \/ \E where \in SUBSET CommissionIds : DeleteManyReturns(where) /\ UNCHANGED <<runVars, routerVars, permitted, dbVars, timeVars>>

CommissionSpec == CommissionInit /\ [][CommissionNext]_vars

(* ------------------ toMilliseconds, convertMsToTime -------------------- *)

RECURSIVE toString(_)
RECURSIVE padStart(_, _, _)

\* The decimal digits, as characters.
DigitChars == <<"0", "1", "2", "3", "4", "5", "6", "7", "8", "9">>

\* Number.prototype.toString for an integer n >= 0, character by character.
toString(n) ==
    IF n < 10 THEN <<DigitChars[n + 1]>>
    ELSE toString(n \div 10) \o <<DigitChars[(n % 10) + 1]>>

\* String.prototype.padStart with a fill of one character.
padStart(str, targetLength, fill) ==
    IF Len(str) >= targetLength THEN str
    ELSE padStart(<<fill>> \o str, targetLength, fill)

\* lines 11-13
padTo2Digits(n) == padStart(toString(n), 2, "0")

\* line 1
toMilliseconds(hrs, min, sec) == (hrs * 60 * 60 + min * 60 + sec) * 1000

\* Variant of convertMsToTime: the hours are not rolled over at 24.
convertMsToTime_NoRollover(ms) ==
    LET seconds == ms \div 1000
        minutes == seconds \div 60
        hours == minutes \div 60
    IN padTo2Digits(hours) \o <<":">> \o padTo2Digits(minutes % 60)
           \o <<":">> \o padTo2Digits(seconds % 60)

\* lines 15-32; Math.floor of a quotient of non-negative integers is \div
convertMsToTime(ms) ==
    LET seconds == ms \div 1000
        minutes == seconds \div 60
        hours == minutes \div 60
    IN padTo2Digits(hours % 24) \o <<":">> \o padTo2Digits(minutes % 60)
           \o <<":">> \o padTo2Digits(seconds % 60)

\* Millisecond values handed to convertMsToTime as they are.
DirectMs == {0, 999, 1000, 54000000, 86399999, 86400000, 86400001, 172800000}

\* Either toMilliseconds is called on hours, minutes and seconds and its
\* result is converted back, or convertMsToTime is called on a value.
TimeInit ==
    /\ CoreAtRest
    /\ DbAtRest
    /\ CommissionAtRest
    /\ time = <<>>
    /\ \/ /\ inHrs \in 0..MaxHrs
          /\ inMin \in 0..59
          /\ inSec \in 0..59
          /\ milliseconds = 0
          /\ tpc = "toMilliseconds"
       \/ /\ inHrs = 0
          /\ inMin = 0
          /\ inSec = 0
          /\ milliseconds \in DirectMs
          /\ tpc = "convertMsToTime"

CallToMilliseconds ==
    /\ tpc = "toMilliseconds"
    /\ milliseconds' = toMilliseconds(inHrs, inMin, inSec)
    /\ tpc' = "convertMsToTime"
    /\ UNCHANGED <<inHrs, inMin, inSec, time>>

CallConvertMsToTime ==
    /\ tpc = "convertMsToTime"
    /\ time' = convertMsToTime(milliseconds)
    /\ tpc' = "done"
    /\ UNCHANGED <<inHrs, inMin, inSec, milliseconds>>

TimeNext ==
    \/ CallToMilliseconds /\ UNCHANGED <<runVars, routerVars, permitted, dbVars, commissionVars>>
    \/ CallConvertMsToTime /\ UNCHANGED <<runVars, routerVars, permitted, dbVars, commissionVars>>

TimeSpec == TimeInit /\ [][TimeNext]_vars

(* --------------------------- MessageAnalyzer --------------------------- *)

\* The strings the chain compares the body with.
OwnerRequest == "Kindly share the mobile number of the owner"

Marker == "House Number/Municipality Number="

SignupLucy == "I want to signup as lucy"

RegisterAgent == "I want to register as agent"

SecondaryOwner == "Kindly share the secondary mobile number of the owner"

MissionSpeed == "Mission Speed"

\* Message bodies: the fixed phrases, a body with the marker in it, bodies
\* the tables can hold, and two that match nothing.
MarkerBody == "House Number/Municipality Number=12"

MissionBody == "Damac Hills 2 Mission Speed"

QuestionPool == <<"What is the price?", "Damac Hills 2", MarkerBody>>

ProjectPool == <<"Damac Hills 2", MissionBody, SecondaryOwner>>

Range(s) == {s[j] : j \in DOMAIN s}

Bodies == {OwnerRequest, SignupLucy, RegisterAgent, SecondaryOwner, "hello"}
              \cup Range(QuestionPool) \cup Range(ProjectPool)

Types == {"chat", "video", "image"}

\* The bodies that come with a quoted reply, and the bodies of the messages
\* that are not text: of each kind some that a rule for text would match.
QuotedBodies == {OwnerRequest, MarkerBody, "Damac Hills 2"}

NonTextBodies == {OwnerRequest, MarkerBody}

Events ==
    {e \in [type : Types, body : Bodies, hasQuotedMsg : BOOLEAN] :
        /\ e.hasQuotedMsg => e.body \in QuotedBodies
        /\ e.type # "chat" => e.body \in NonTextBodies}

\* The answers, by position in the table.
AnswerText == <<"Prices start at AED 1.2M", "Handover is in 2026", "Yes, it is freehold">>

\* The tables a pool gives: up to n entries of it that follow each other, the
\* first coming again after the last.
Windows(pool, n) ==
    {[j \in 1..k |-> pool[((a + j - 2) % Len(pool)) + 1]] :
        a \in DOMAIN pool, k \in {h \in 0..n : h <= Len(pool)}}

\* String.prototype.includes, for the bodies above.
Includes(body, needle) ==
    \/ body = needle
    \/ needle = Marker /\ body = MarkerBody
    \/ needle = MissionSpeed /\ body = MissionBody

\* Array.prototype.includes
ArrayIncludes(arr, x) == \E j \in DOMAIN arr : arr[j] = x

\* Variant of FindIndex: the position counted from 1.
FindIndex_OneBased(arr, value) ==
    IF ArrayIncludes(arr, value)
    THEN CHOOSE j \in DOMAIN arr :
             arr[j] = value /\ \A k \in DOMAIN arr : arr[k] = value => j <= k
    ELSE 0 - 1

\* Array.prototype.findIndex with x => x === value: 0-based, -1 for none.
FindIndex(arr, value) ==
    IF ArrayIncludes(arr, value)
    THEN (CHOOSE j \in DOMAIN arr :
             arr[j] = value /\ \A k \in DOMAIN arr : arr[k] = value => j <= k) - 1
    ELSE 0 - 1

\* arr[index] of JavaScript, 0-based.
ElementAt(arr, index) ==
    IF index + 1 \in DOMAIN arr THEN arr[index + 1] ELSE "undefined"

\* Variant of FindProject: the first project of the table, whatever its name.
FindProject_First(projects, body) ==
    IF projects # <<>> /\ \E j \in DOMAIN projects : projects[j].ProjectName = body
    THEN projects[1]
    ELSE [defined |-> FALSE, ProjectName |-> ""]

\* MyProjects.find((x) => x.ProjectName === body): the first such project, or
\* undefined.
FindProject(projects, body) ==
    LET hits == {j \in DOMAIN projects : projects[j].ProjectName = body}
    IN IF hits # {}
       THEN projects[CHOOSE j \in hits : \A k \in hits : j <= k]
       ELSE [defined |-> FALSE, ProjectName |-> ""]

\* Variant of ChatChain: the campaign names tested before the FAQ questions.
ChatChain_CampaignFirst ==
    <<"ownerRequest", "sharing", "missionSpeed", "campaign", "faq", "signupLucy",
      "registerAgent", "secondaryOwner", "default">>

\* The branches of the chain for a chat message, in the order of the code.
ChatChain == <<"ownerRequest", "sharing", "faq", "signupLucy", "registerAgent",
               "secondaryOwner", "missionSpeed", "campaign", "default">>

\* Variant of SharingGuard: the quoted-reply flag is not looked at.
SharingGuard_AnyMessage(m) == Includes(m.body, Marker)

\* line 33: the marker is in the body and the message quotes another
SharingGuard(m) == Includes(m.body, Marker) /\ m.hasQuotedMsg

\* The condition of each branch (lines 29-80).
Guard(b, m) ==
    CASE b = "ownerRequest" -> m.body = OwnerRequest
      [] b = "sharing" -> SharingGuard(m)
      [] b = "faq" -> ArrayIncludes(ClientQuestionsArray, m.body)
      [] b = "signupLucy" -> m.body = SignupLucy
      [] b = "registerAgent" -> m.body = RegisterAgent
      [] b = "secondaryOwner" -> m.body = SecondaryOwner
      [] b = "missionSpeed" ->
            FindProject(MyProjects, m.body).defined /\ Includes(m.body, MissionSpeed)
      [] b = "campaign" -> FindProject(MyProjects, m.body).defined
      [] OTHER -> TRUE

\* Variant of Else: every condition is tested, as with if in place of else if.
Else_Fallthrough(b, m) == TRUE

\* else: a branch is tested only when no condition before it held.
Else(b, m) ==
    \A c \in DOMAIN ChatChain :
        (\A d \in DOMAIN ChatChain : ChatChain[d] = b => c < d) => ~Guard(ChatChain[c], m)

\* Variant of Fired: the type of the message is not looked at.
Fired_AnyType(m) ==
    LET Enters(b) == Else(b, m) /\ Guard(b, m)
    IN SelectSeq(ChatChain, Enters)

\* The branches a message enters (lines 25-92).
Fired(m) ==
    IF m.type = "chat"
    THEN LET Enters(b) == Else(b, m) /\ Guard(b, m)
         IN SelectSeq(ChatChain, Enters)
    ELSE IF m.type = "video" THEN <<"video">>
    ELSE <<"otherType">>

\* The branches that await a handler.
Awaited == {"ownerRequest", "sharing", "signupLucy", "campaign"}

\* The handler a branch calls, with what it is called on.
HandlerOf(b, m) ==
    CASE b = "ownerRequest" -> <<"FindAndShareOwnerNumberOnAgentRequest", m.body>>
      [] b = "sharing" -> <<"SharingMobileNumber", m.body>>
      [] b = "faq" ->
            <<"msg.reply",
              ElementAt(ClientAnswersArray, FindIndex(ClientQuestionsArray, m.body))>>
      [] b = "signupLucy" -> <<"CreatingNewWhatsAppClientLucy", "Lucy">>
      [] OTHER -> <<"ProjectCampaign", FindProject(MyProjects, m.body).ProjectName>>

\* The tables are loaded once; no call of MessageAnalyzer yet.
RouterInit ==
    /\ InitRuns({})
    /\ Agents = 0
    /\ ClientQuestionsArray \in Windows(QuestionPool, MaxTable)
    /\ ClientAnswersArray = [j \in DOMAIN ClientQuestionsArray |-> AnswerText[j]]
    /\ MyProjects \in {[j \in DOMAIN q |-> [defined |-> TRUE, ProjectName |-> q[j]]] :
                          q \in Windows(ProjectPool, MaxTable)}
    /\ RouterAtRest
    /\ permitted = TRUE
    /\ UtilAtRest

\* The call the variables msg, fired, step and invoked describe.
Current == [msg |-> msg, fired |-> fired, step |-> step, invoked |-> invoked]

\* The calls that wait for their handler: the one that ran last, when it is at
\* an await, and the suspended ones.
InFlight ==
    (IF rpc = "await" THEN {"current"} ELSE {}) \cup {s \in Slots : suspended[s] # NoCall}

CallOf(c) == IF c = "current" THEN Current ELSE suspended[c]

\* The code of MessageAnalyzer from branch st of the chain f up to its next
\* await or its end, which runs without interruption: the outcomes it can
\* have. A branch that only logs is passed (lines 54-67, 80-92); a branch
\* with a handler calls it and waits (lines 31, 35, 50, 74); the FAQ branch
\* calls msg.reply without await (lines 42-46), which throws into the catch
\* block of line 93 or returns a promise nothing waits for; after the last
\* branch the call resolves (line 96).
RECURSIVE Segment(_, _, _, _, _)
Segment(f, st, inv, sent, m) ==
    IF st \notin DOMAIN f
    THEN {[rpc |-> "idle", step |-> st, invoked |-> inv, caught |-> 0, sent |-> sent]}
    ELSE IF f[st] \in Awaited
    THEN {[rpc |-> "await", step |-> st, invoked |-> Append(inv, HandlerOf(f[st], m)),
           caught |-> 0, sent |-> sent]}
    ELSE IF f[st] = "faq"
    THEN {[rpc |-> "idle", step |-> st, invoked |-> Append(inv, HandlerOf("faq", m)),
           caught |-> 1, sent |-> sent]}
            \cup Segment(f, st + 1, Append(inv, HandlerOf("faq", m)), sent + 1, m)
    ELSE Segment(f, st + 1, inv, sent, m)

\* The call ran up to its next await, or to its end: MessageAnalyzer resolves.
Settle(o) ==
    /\ rpc' = o.rpc
    /\ step' = o.step
    /\ invoked' = o.invoked
    /\ caught' = o.caught
    /\ pending' = pending + o.sent
    /\ handled' = IF o.rpc = "idle" THEN handled + 1 ELSE handled

\* Another call runs: the one that ran last, when it waits for its handler,
\* stays suspended in slot s.
Suspend(s) ==
    suspended' = IF rpc = "await" THEN [suspended EXCEPT ![s] = Current] ELSE suspended

\* The call c goes on: it leaves its slot, and the call that ran last takes the
\* slot when it waits for its handler itself.
Resume(c) ==
    suspended' = IF c = "current" THEN suspended
                 ELSE [suspended EXCEPT ![c] = IF rpc = "await" THEN Current ELSE NoCall]

\* Variant of Receive: the branch of the message before is kept for the next.
Receive_Sticky(m) ==
    /\ handled + Cardinality(InFlight) < MaxEvents
    /\ \E s \in Slots :
          /\ rpc = "await" => suspended[s] = NoCall
          /\ Suspend(s)
    /\ msg' = m
    /\ fired' = IF msg # NoMsg THEN fired ELSE Fired(m)
    /\ \E o \in Segment(fired', 1, <<>>, 0, m) : Settle(o)
    /\ UNCHANGED <<tables, unhandled>>

\* lines 21-96: MessageAnalyzer is called with a message, also while earlier
\* calls wait for their handlers; the conditions are tested and the branch
\* entered runs up to its await or to the end
Receive(m) ==
    /\ handled + Cardinality(InFlight) < MaxEvents
    /\ \E s \in Slots :
          /\ rpc = "await" => suspended[s] = NoCall
          /\ Suspend(s)
    /\ msg' = m
    /\ fired' = Fired(m)
    /\ \E o \in Segment(fired', 1, <<>>, 0, m) : Settle(o)
    /\ UNCHANGED <<tables, unhandled>>

\* the handler a call waits for resolves, and the call goes on; line 51 then
\* names WhatsAppClientFunctions, which the module never imports: a
\* ReferenceError, caught on line 93
HandlerReturns(c) ==
    /\ c \in InFlight
    /\ Resume(c)
    /\ msg' = CallOf(c).msg
    /\ fired' = CallOf(c).fired
    /\ IF CallOf(c).fired[CallOf(c).step] = "signupLucy"
       THEN Settle([rpc |-> "idle", step |-> CallOf(c).step, invoked |-> CallOf(c).invoked,
                    caught |-> 1, sent |-> 0])
       ELSE \E o \in Segment(CallOf(c).fired, CallOf(c).step + 1, CallOf(c).invoked, 0,
                             CallOf(c).msg) : Settle(o)
    /\ UNCHANGED <<tables, unhandled>>

\* lines 93-95: the handler a call waits for rejects; the catch block logs the
\* error and the call resolves
HandlerRaises(c) ==
    /\ c \in InFlight
    /\ Resume(c)
    /\ msg' = CallOf(c).msg
    /\ fired' = CallOf(c).fired
    /\ Settle([rpc |-> "idle", step |-> CallOf(c).step, invoked |-> CallOf(c).invoked,
               caught |-> 1, sent |-> 0])
    /\ UNCHANGED <<tables, unhandled>>

\* the reply of an earlier line 46 is delivered
ReplyDelivered ==
    /\ pending > 0
    /\ pending' = pending - 1
    /\ UNCHANGED <<tables, msg, rpc, fired, step, invoked, caught, suspended, unhandled,
                   handled>>

\* the reply of an earlier line 46 fails; nothing awaits its promise
ReplyRejects ==
    /\ pending > 0
    /\ pending' = pending - 1
    /\ unhandled' = unhandled + 1
    /\ UNCHANGED <<tables, msg, rpc, fired, step, invoked, caught, suspended, handled>>

RouterNext ==
    \/ \E m \in Events : Receive(m) /\ UNCHANGED <<runVars, permitted, utilVars>>
    \/ \E c \in Slots \cup {"current"} : HandlerReturns(c) /\ UNCHANGED <<runVars, permitted, utilVars>>
    \/ \E c \in Slots \cup {"current"} : HandlerRaises(c) /\ UNCHANGED <<runVars, permitted, utilVars>>
    \/ ReplyDelivered /\ UNCHANGED <<runVars, permitted, utilVars>>
    \/ ReplyRejects /\ UNCHANGED <<runVars, permitted, utilVars>>

RouterSpec == RouterInit /\ [][RouterNext]_vars

(* ---------------------- reading the history ---------------------------- *)

\* How often the event was recorded for iteration j of run r.
Count(r, ev, j) == Cardinality({n \in DOMAIN trace[r] : trace[r][n] = <<ev, j>>})

Has(r, ev, j) == \E n \in DOMAIN trace[r] : trace[r][n] = <<ev, j>>

\* The places of the history where the event of iteration j stands.
At(r, ev, j) == {n \in DOMAIN trace[r] : trace[r][n] = <<ev, j>>}

\* Every occurrence of the first event precedes every occurrence of the second.
Precedes(r, ev1, j1, ev2, j2) ==
    \A n \in At(r, ev1, j1) : \A m \in At(r, ev2, j2) : n < m

\* The iterations of a run, and those the loop has left behind.
Iterations(r) == 0..(Len(numbers[r]) - 1)

Finished(r) == {j \in Iterations(r) : j < i[r]}

\* What iteration j added to the three counters.
Counted(r, j) ==
    <<Count(r, "successes++", j), Count(r, "fails++", j), Count(r, "skipped++", j)>>

Completed(r) == pc[r] = "returned"

(* ------------------------------- C1 ------------------------------------ *)

\* C1: after sendBroadcast completes a run over k contacts, successes +
\* failures + skips equals k, whatever the per-contact outcomes were
\* (including a progress report that raises).
C1_TalliesSumToContacts ==
    \A r \in active :
        Completed(r) => successes[r] + fails[r] + skipped[r] = Len(numbers[r])

(* ------------------------------- C2 ------------------------------------ *)

\* C2: in new-contacts-only mode a contact whose probe returned Found is never
\* sent to and adds exactly one to the skip counter (and nothing to the other
\* two); a run over a single such contact ends with 0 successes, 0 failures
\* and 1 skip.
C2_FoundIsSkippedNotSent ==
    \A r \in active :
        newChatsOnly[r] =>
            /\ \A j \in Iterations(r) :
                  Has(r, "Found", j) =>
                      /\ ~Has(r, "sendMessage", j)
                      /\ Counted(r, j) = <<0, 0, 1>>
            /\ skipped[r] = Cardinality({j \in Iterations(r) : Has(r, "Found", j)})
            /\ (Completed(r) /\ Len(numbers[r]) = 1 /\ Has(r, "Found", 0)) =>
                  <<successes[r], fails[r], skipped[r]>> = <<0, 0, 1>>

C2_Witness ==
    /\ Completed("run1")
    /\ newChatsOnly["run1"]
    /\ Len(numbers["run1"]) = 1
    /\ Has("run1", "Found", 0)
    /\ skipped["run1"] = 1

(* ------------------------------- C3 ------------------------------------ *)

\* C3: a send that raises a transport error counts that contact as exactly one
\* failure and the run goes on: the throttle is called for the same contact,
\* the run is never rejected after a send error, and a run that had send
\* errors and completed has selected a session for every one of its k contacts.
C3_SendErrorIsOneFailure ==
    \A r \in active :
        \A j \in Iterations(r) :
            Has(r, "TransportError", j) =>
                /\ Counted(r, j) = <<0, 1, 0>>
                /\ Has(r, "SleepTimeOfficialHoursWithRandomDelay", j)
                /\ pc[r] # "rejected"
                /\ j < i[r] /\ j + 1 < Len(numbers[r]) /\ pc[r] # "for" =>
                      Has(r, "SelectingBotForCampaign", j + 1)
                /\ Completed(r) =>
                      \A m \in Iterations(r) : Count(r, "SelectingBotForCampaign", m) = 1

C3_Witness ==
    /\ Completed("run1")
    /\ Len(numbers["run1"]) >= 2
    /\ Has("run1", "TransportError", 0)
    /\ Has("run1", "TransportError", 1)
    /\ fails["run1"] = Len(numbers["run1"])

(* ------------------------------- C4 ------------------------------------ *)

Malformed(r) ==
    {j \in Iterations(r) : validateNumberWithCountryCode(numbers[r][j + 1]) = InvalidFormat}

\* C4: a contact whose number fails validation is counted as exactly one
\* failure once its iteration is over, never as a success or a skip, and the
\* run goes on; the list [valid, malformed] with one session, newChatsOnly
\* false and the probe always answering NotFound ends with 1 success,
\* 1 failure and 0 skips.
C4_MalformedIsOneFailure ==
    \A r \in active :
        /\ \A j \in Malformed(r) :
              /\ j \in Finished(r) => Counted(r, j) = <<0, 1, 0>>
              /\ Has(r, "SelectingBotForCampaign", j) /\ Agents > 0 => pc[r] # "rejected"
              /\ Completed(r) => j \in Finished(r)
        /\ ( /\ Completed(r)
             /\ numbers[r] = <<"971501112222", "971501112222-malformed">>
             /\ Agents = 1
             /\ ~newChatsOnly[r]
             /\ \A j \in Iterations(r) : Has(r, "NotFound", j)
             /\ Has(r, "DeliveryReceipt", 0) )
           => <<successes[r], fails[r], skipped[r]>> = <<1, 1, 0>>

(* ------------------------------- C5 ------------------------------------ *)

\* C5: when the probe fails (ProbeUnavailable) for a contact, the contact is
\* treated as NotFound: sendMessage is invoked for it, and the probe failure
\* by itself neither counts a failure nor a skip nor rejects the run.
C5_ProbeFailureProceedsToSend ==
    \A r \in active :
        \A j \in Iterations(r) :
            Has(r, "ProbeUnavailable", j) =>
                /\ Has(r, "sendMessage", j)
                /\ Count(r, "skipped++", j) = 0
                /\ Has(r, "fails++", j) => Has(r, "TransportError", j) \/ Has(r, "TypeError", j)
                /\ pc[r] # "rejected"

(* ------------------------------- C6 ------------------------------------ *)

Throttle == "SleepTimeOfficialHoursWithRandomDelay"

\* C6: the throttle wait executes exactly once for every processed
\* contact, whether it was sent, skipped or failed.
C6_ThrottleOncePerContact ==
    \A r \in active :
        \A j \in Finished(r) :
            /\ Count(r, Throttle, j) = 1
            /\ Precedes(r, Throttle, j, "SelectingBotForCampaign", j + 1)

(* ------------------------------- C7 ------------------------------------ *)

\* The observations printed for iteration j.
ReportsOf(r, j) == {n \in DOMAIN reports[r] : reports[r][n].i = j}

\* C7: for every contact of a run, sent, skipped or failed, a
\* progress observation with the running tallies is emitted before the next
\* contact is processed.
C7_ReportForEveryContact ==
    \A r \in active :
        \A j \in Finished(r) :
            /\ Cardinality(ReportsOf(r, j)) = 1
            /\ Precedes(r, "CampaignResult", j, "SelectingBotForCampaign", j + 1)

(* ------------------------------- C8 ------------------------------------ *)

\* C8: a run that completes returns its final tallies to the caller: the
\* success count, the failure count and the skip count, equal to the counters
\* at loop exit.
C8_ReturnsThreeTallies ==
    \A r \in active :
        Completed(r) =>
            /\ DOMAIN returned[r] = {"successes", "fails", "skipped"}
            /\ returned[r].successes = successes[r]
            /\ returned[r].fails = fails[r]
            /\ returned[r].skipped = skipped[r]

(* ------------------------------- C9 ------------------------------------ *)

\* How often the session with the index was selected in the run.
Uses(r, idx) == Cardinality({n \in DOMAIN selected[r] : selected[r][n] = idx})

\* C9: with a pool of p >= 1 sessions the session selected at iteration i has
\* index i mod p, within 0..p-1, the selections at iterations i and i + p are
\* the same handle, and the use counts of two sessions never differ by more
\* than one.
C9_RoundRobin ==
    \A r \in active :
        Agents >= 1 =>
            /\ \A n \in DOMAIN selected[r] :
                  /\ selected[r][n] \in 0..(Agents - 1)
                  /\ selected[r][n] = (n - 1) % Agents
                  /\ n + Agents \in DOMAIN selected[r] =>
                        SelectingBotForCampaign(selected[r][n + Agents])
                            = SelectingBotForCampaign(selected[r][n])
            /\ selected[r] # <<>> =>
                  WhatsAppBotClient[r] = Handle((Len(selected[r]) - 1) % Agents)
            /\ \A a, b \in 0..(Agents - 1) : Uses(r, a) - Uses(r, b) <= 1

C9_Witness ==
    /\ Agents = 2
    /\ Len(selected["run1"]) = 3
    /\ selected["run1"][1] = selected["run1"][3]
    /\ Uses("run1", 0) = 2 /\ Uses("run1", 1) = 1

(* ------------------------------- C10 ----------------------------------- *)

\* C10: a run started with an empty session pool or with an empty contact
\* list ends in a configuration error before any contact is processed: no
\* probe, no send, no throttle wait, and it does not complete with tallies.
C10_ConfigurationErrorBeforeAnyContact ==
    \A r \in active :
        (Agents = 0 \/ MNumbers[r] = <<>>) =>
            /\ ~Completed(r)
            /\ \A j \in Iterations(r) :
                  /\ ~Has(r, "findAndCheckChat", j)
                  /\ ~Has(r, "sendMessage", j)
                  /\ ~Has(r, Throttle, j)

(* ------------------------ reading the router --------------------------- *)

\* The last message has been routed and MessageAnalyzer has resolved.
Routed == rpc = "idle" /\ handled > 0

\* The names of the handlers called for the message.
Called == {invoked[k][1] : k \in DOMAIN invoked}

\* The branch was run: its handler was called, or its log line was passed.
Ran(b) ==
    IF b \in Awaited \cup {"faq"}
    THEN \E k \in DOMAIN invoked : invoked[k] = HandlerOf(b, msg)
    ELSE step > 1

(* ------------------------------- C11 ----------------------------------- *)

\* C11: for every inbound message exactly one branch of the chain runs, never
\* none and never more than one, and at most one handler is called; a text
\* message whose body is the owner-contact request calls the owner-lookup
\* handler exactly once and no other handler.
C11_ExactlyOneBranch ==
    msg # NoMsg =>
        /\ Len(fired) = 1
        /\ Len(invoked) <= 1
        /\ \A s \in Slots : Len(suspended[s].fired) <= 1 /\ Len(suspended[s].invoked) <= 1
        /\ Routed => Ran(fired[1])
        /\ Routed /\ msg.type = "chat" /\ msg.body = OwnerRequest =>
              invoked = <<<<"FindAndShareOwnerNumberOnAgentRequest", msg.body>>>>

C11_Witness ==
    /\ Routed
    /\ msg.type = "chat"
    /\ msg.body = OwnerRequest
    /\ invoked = <<<<"FindAndShareOwnerNumberOnAgentRequest", OwnerRequest>>>>
    /\ caught = 0

(* ------------------------------- C12 ----------------------------------- *)

\* The rules of the fixed order: 2 owner request, 3 marker and quoted reply,
\* 4 FAQ question, 5 onboarding phrase, 6 campaign name.
RuleMatches(n, m) ==
    CASE n = 2 -> m.body = OwnerRequest
      [] n = 3 -> Includes(m.body, Marker) /\ m.hasQuotedMsg
      [] n = 4 -> \E j \in DOMAIN ClientQuestionsArray : ClientQuestionsArray[j] = m.body
      [] n = 5 -> m.body \in {SignupLucy, RegisterAgent}
      [] OTHER -> \E j \in DOMAIN MyProjects : MyProjects[j].ProjectName = m.body

Matching(m) == {n \in 2..6 : RuleMatches(n, m)}

\* The rule a branch of the code belongs to (7: no rule, nothing to do).
RuleOfBranch(b) ==
    CASE b = "ownerRequest" -> 2
      [] b = "sharing" -> 3
      [] b = "faq" -> 4
      [] b \in {"signupLucy", "registerAgent"} -> 5
      [] b \in {"missionSpeed", "campaign"} -> 6
      [] OTHER -> 7

RuleOfHandler(name) ==
    CASE name = "FindAndShareOwnerNumberOnAgentRequest" -> 2
      [] name = "SharingMobileNumber" -> 3
      [] name = "msg.reply" -> 4
      [] name = "CreatingNewWhatsAppClientLucy" -> 5
      [] OTHER -> 6

\* C12: when a text body satisfies the conditions of more than one rule, only
\* the branch of the earliest of these rules runs and only its handler is
\* called; a body that is an FAQ question and a campaign name gets the FAQ
\* reply and starts no campaign.
C12_EarliestRuleWins ==
    (msg.type = "chat" /\ Cardinality(Matching(msg)) >= 2) =>
        LET first == CHOOSE n \in Matching(msg) : \A k \in Matching(msg) : n <= k
        IN /\ \A k \in DOMAIN fired : RuleOfBranch(fired[k]) = first
           /\ \A name \in Called : RuleOfHandler(name) = first
           /\ Routed => Ran(fired[1])
           /\ Routed /\ Matching(msg) = {4, 6} =>
                 /\ Called = {"msg.reply"}
                 /\ "ProjectCampaign" \notin Called

C12_Witness ==
    /\ Routed
    /\ msg.type = "chat"
    /\ Matching(msg) = {4, 6}
    /\ Called = {"msg.reply"}

(* ------------------------------- C13 ----------------------------------- *)

\* C13: a text message whose body equals the question at index j of the FAQ
\* table, and that matches no earlier rule, is answered with msg.reply of the
\* answer at index j, and with nothing else.
C13_ReplyIsAnswerAtSameIndex ==
    \A j \in DOMAIN ClientQuestionsArray :
        ( /\ Routed
          /\ msg.type = "chat"
          /\ msg.body = ClientQuestionsArray[j]
          /\ ~RuleMatches(2, msg)
          /\ ~RuleMatches(3, msg) )
        => invoked = <<<<"msg.reply", ClientAnswersArray[j]>>>>

C13_Witness ==
    /\ Routed
    /\ msg.type = "chat"
    /\ Len(ClientQuestionsArray) = 2
    /\ msg.body = ClientQuestionsArray[2]
    /\ invoked = <<<<"msg.reply", ClientAnswersArray[2]>>>>

(* ------------------------------- C14 ----------------------------------- *)

\* C14: no error raised by a handler MessageAnalyzer invokes, synchronously or
\* by an asynchronous operation the handler started, gets past the catch block
\* of MessageAnalyzer.
C14_NoErrorEscapes == unhandled = 0

(* ------------------------------- C15 ----------------------------------- *)

\* C15: for a message that is not text only the log branch of its type runs:
\* no reply is sent, no handler is called and nothing is caught, whatever the
\* body and the quoted-reply flag are.
C15_NonTextOnlyLogs ==
    msg.type \notin {"chat", "none"} =>
        /\ fired = (IF msg.type = "video" THEN <<"video">> ELSE <<"otherType">>)
        /\ invoked = <<>>
        /\ caught = 0
        /\ rpc = "idle"
        /\ step = 2

C15_Witness ==
    /\ Routed
    /\ msg.type = "video"
    /\ msg.body = OwnerRequest
    /\ msg.hasQuotedMsg
    /\ invoked = <<>>

(* ------------------------------- C16 ----------------------------------- *)

\* C16: for a text message SharingMobileNumber is called, once, exactly when
\* the body contains the marker, the message carries a quoted reply and the
\* body is not the owner request; a body with the marker and no quoted reply
\* never calls it and goes to the later rules (the FAQ reply when the body is
\* a question, the default branch otherwise).
C16_SharingNeedsMarkerAndQuote ==
    msg.type = "chat" =>
        /\ Routed =>
              ("SharingMobileNumber" \in Called
                  <=> /\ Includes(msg.body, Marker)
                      /\ msg.hasQuotedMsg
                      /\ msg.body # OwnerRequest)
        /\ "SharingMobileNumber" \in Called =>
              invoked = <<<<"SharingMobileNumber", msg.body>>>>
        /\ Includes(msg.body, Marker) /\ ~msg.hasQuotedMsg =>
              /\ "SharingMobileNumber" \notin Called
              /\ fired = (IF RuleMatches(4, msg) THEN <<"faq">> ELSE <<"default">>)
              /\ Routed /\ RuleMatches(4, msg) => Called = {"msg.reply"}

C16_Witness ==
    /\ Routed
    /\ msg.type = "chat"
    /\ msg.body = MarkerBody
    /\ ~msg.hasQuotedMsg
    /\ RuleMatches(4, msg)
    /\ Called = {"msg.reply"}

(* ------------------------------- C17 ----------------------------------- *)

\* C17 as stated: for every text message whose body equals the ProjectName of
\* a campaign of MyProjects and that matches none of the rules before the
\* campaign rule, ProjectCampaign is invoked exactly once, for that campaign.
C17_CampaignNameStartsCampaign ==
    ( /\ Routed
      /\ msg.type = "chat"
      /\ Matching(msg) = {6} )
    => invoked = <<<<"ProjectCampaign", msg.body>>>>

\* C17 amended: for every text message whose body equals the ProjectName of a
\* campaign of MyProjects, matches none of the rules before the campaign rule,
\* is not the secondary-owner request and does not contain "Mission Speed",
\* ProjectCampaign is invoked exactly once, for the first campaign of that
\* name; a campaign name that contains "Mission Speed" starts nothing.
C17_CampaignUnlessMissionSpeed ==
    ( /\ Routed
      /\ msg.type = "chat"
      /\ Matching(msg) = {6} )
    => /\ msg.body # SecondaryOwner /\ ~Includes(msg.body, MissionSpeed) =>
             invoked = <<<<"ProjectCampaign", msg.body>>>>
       /\ Includes(msg.body, MissionSpeed) => invoked = <<>>

C17_Witness ==
    /\ Routed
    /\ msg.type = "chat"
    /\ Len(MyProjects) = 2
    /\ MyProjects[2].ProjectName = msg.body
    /\ Matching(msg) = {6}
    /\ invoked = <<<<"ProjectCampaign", msg.body>>>>

(* ------------------------------- C18 ----------------------------------- *)

\* C18: within one run the positions of the shuffled sequence are processed in
\* sequence order, one after another, and each at most once (exactly once in a
\* run that completed); the session selection, the probe and the send are each
\* called at most once per contact, and a contact whose send failed is never
\* sent to again.
C18_EachContactOnceInOrder ==
    \A r \in active :
        /\ \A n, m \in DOMAIN trace[r] : n < m => trace[r][n][2] <= trace[r][m][2]
        /\ \A n \in DOMAIN trace[r] : trace[r][n][2] \in Iterations(r) /\ trace[r][n][2] <= i[r]
        /\ \A j \in Iterations(r) :
              /\ Count(r, "SelectingBotForCampaign", j) <= 1
              /\ Count(r, "findAndCheckChat", j) <= 1
              /\ Count(r, "sendMessage", j) <= 1
              /\ j \in Finished(r) => Count(r, "SelectingBotForCampaign", j) = 1
              /\ Has(r, "TransportError", j) => Count(r, "sendMessage", j) = 1
        /\ Completed(r) => Finished(r) = Iterations(r)

C18_Witness ==
    /\ Completed("run1")
    /\ Len(numbers["run1"]) = MaxContacts
    /\ Has("run1", "TransportError", 0)
    /\ Count("run1", "sendMessage", 0) = 1
    /\ \A j \in Iterations("run1") : Count("run1", "SelectingBotForCampaign", j) = 1

(* ------------------------------- C19 ----------------------------------- *)

\* C19: a contact whose number fails validation goes directly to Failed:
\* neither findAndCheckChat nor sendMessage is called for it.
C19_MalformedSkipsProbeAndSend ==
    \A r \in active :
        \A j \in Malformed(r) :
            /\ ~Has(r, "findAndCheckChat", j)
            /\ ~Has(r, "sendMessage", j)

(* ------------------------------- C20 ----------------------------------- *)

\* C20: a contact whose send returned a delivery acknowledgment is counted as
\* a success and never also as a failure, whatever happens later in the same
\* iteration; every processed contact increments exactly one of the three
\* counters, by exactly one.
C20_OneCounterPerContact ==
    \A r \in active :
        \A j \in Iterations(r) :
            /\ Has(r, "DeliveryReceipt", j) => Count(r, "fails++", j) = 0
            /\ j \in Finished(r) =>
                  /\ Has(r, "DeliveryReceipt", j) => Counted(r, j) = <<1, 0, 0>>
                  /\ Counted(r, j) \in {<<1, 0, 0>>, <<0, 1, 0>>, <<0, 0, 1>>}

(* ------------------------------- C21 ----------------------------------- *)

\* C21: when newChatsOnly is false every contact with a valid number whose
\* probe answered, Found or NotFound, gets a send attempt, and the skip counter
\* stays 0 for the whole run.
C21_AllContactsSentWhenNotNewOnly ==
    \A r \in active :
        ~newChatsOnly[r] =>
            /\ skipped[r] = 0
            /\ \A j \in Iterations(r) :
                  /\ ~Has(r, "skipped++", j)
                  /\ Has(r, "Found", j) \/ Has(r, "NotFound", j) =>
                        Count(r, "sendMessage", j) = 1
                  /\ j \in Finished(r) /\ j \notin Malformed(r) =>
                        Has(r, "sendMessage", j) \/ Has(r, "ProbeUnavailable", j)

C21_Witness ==
    /\ Completed("run1")
    /\ ~newChatsOnly["run1"]
    /\ Len(numbers["run1"]) >= 2
    /\ Has("run1", "Found", 0) /\ Has("run1", "sendMessage", 0)
    /\ Has("run1", "NotFound", 1) /\ Has("run1", "sendMessage", 1)
    /\ skipped["run1"] = 0

(* ------------------------------- C22 ----------------------------------- *)

\* C22: while the allowed sending window is closed no sendMessage call is
\* made: once the window has closed the run sends to no further contact.
C22_NoSendWhileWindowClosed ==
    [][\A r \in active :
          (pc[r] # "sendMessage" /\ pc'[r] = "sendMessage") => permitted]_vars

(* ------------------------------- C23 ----------------------------------- *)

\* How often the event stands in the history of the run.
Total(r, ev) == Cardinality({n \in DOMAIN trace[r] : trace[r][n][1] = ev})

\* C23: of two runs that interleave at their awaits each ends with the tallies
\* its own per-contact outcomes give (acknowledged sends, errors, skips), and
\* each satisfies the tally invariant for its own contact list.
C23_InterleavedRunsKeepOwnTallies ==
    (active = RunIds) =>
        \A r \in active :
            /\ successes[r] = Total(r, "DeliveryReceipt")
            /\ skipped[r] = Total(r, "skipped++")
            /\ fails[r] = Total(r, "ProbeUnavailable") + Total(r, "TransportError")
                              + Total(r, "TypeError")
            /\ Completed(r) => successes[r] + fails[r] + skipped[r] = Len(numbers[r])

(* ------------------------------- C24 ----------------------------------- *)

\* The loop body was entered once for every entry of the list.
AllIterationsDone(r) ==
    /\ i[r] = Len(numbers[r])
    /\ \A j \in Iterations(r) : Count(r, "SelectingBotForCampaign", j) = 1

\* C24 as stated: if every awaited call eventually returns or raises, a run
\* over k contacts eventually completes, after exactly k loop iterations.
C24_RunCompletes ==
    /\ [](Completed("run1") => AllIterationsDone("run1"))
    /\ <>Completed("run1")

\* C24 amended: if every awaited call eventually returns or raises, a run over
\* k contacts eventually ends; with every session selection returning it
\* completes, after exactly k loop iterations, whatever the probes and sends
\* do; a run is rejected only at a session selection that raised, with the
\* contacts from that one on left unprocessed.
C24_RunCompletesUnlessSelectionRaises ==
    /\ [](Completed("run1") => AllIterationsDone("run1"))
    /\ [](pc["run1"] = "rejected" =>
             /\ SelectingBotForCampaignRaises(AgentForIteration["run1"])
             /\ i["run1"] < Len(numbers["run1"])
             /\ Has("run1", "SelectingBotForCampaign", i["run1"])
             /\ ~Has("run1", "findAndCheckChat", i["run1"]))
    /\ <>(pc["run1"] \in {"returned", "rejected"})
    /\ (Agents >= 1) => <>Completed("run1")

C24_Witness ==
    /\ Completed("run1")
    /\ Agents >= 1
    /\ Len(numbers["run1"]) = MaxContacts
    /\ AllIterationsDone("run1")
    /\ \E j \in Iterations("run1") : Has("run1", "ProbeUnavailable", j)
    /\ \E j \in Iterations("run1") : Has("run1", "TransportError", j)

(* ------------------------------- C25 ----------------------------------- *)

\* C25: the branch and the handler MessageAnalyzer selects for a message are a
\* function of that message and of the rule tables alone, whatever was routed
\* before and whatever calls are waiting for their handlers; the tables are
\* never written; a message routed again right after itself enters the same
\* branch.
C25_RoutingIsStateless ==
    [][/\ msg' # NoMsg =>
             /\ fired' = Fired(msg')
             /\ \A k \in DOMAIN invoked' : invoked'[k] = HandlerOf(fired'[1], msg')
       /\ \A s \in Slots :
             suspended'[s] # NoCall =>
                 /\ suspended'[s].fired = Fired(suspended'[s].msg)
                 /\ suspended'[s].invoked =
                       <<HandlerOf(suspended'[s].fired[1], suspended'[s].msg)>>
       /\ tables' = tables
       /\ msg' = msg => fired' = fired]_vars

C25_Witness ==
    /\ Routed
    /\ suspended["s1"].msg = [type |-> "chat", body |-> OwnerRequest, hasQuotedMsg |-> FALSE]
    /\ suspended["s1"].invoked = <<<<"FindAndShareOwnerNumberOnAgentRequest", OwnerRequest>>>>
    /\ msg.type = "chat"
    /\ fired = <<"campaign">>
    /\ invoked = <<<<"ProjectCampaign", msg.body>>>>

(* ------------------------------- C26 ----------------------------------- *)

\* C26: in new-contacts-only mode, with one or more sessions and a probe that
\* answers Found exactly when the probed session has sent to the contact, a
\* contact that stands more than once in the list is delivered to at most
\* once within the run.
C26_DuplicateDeliveredOnce ==
    \A r \in active :
        (newChatsOnly[r] /\ Agents >= 1) =>
            \A j1, j2 \in Iterations(r) :
                (j1 < j2 /\ numbers[r][j1 + 1] = numbers[r][j2 + 1]) =>
                    ~(Has(r, "DeliveryReceipt", j1) /\ Has(r, "DeliveryReceipt", j2))

(* ------------------------------- C27 ----------------------------------- *)

\* C27: every progress observation CampaignResult prints in iteration i of a
\* run over k contacts reports remaining = k - (i + 1), and the remaining
\* count is never negative.
C27_RemainingIsTotalMinusProcessed ==
    \A r \in active :
        \A n \in DOMAIN reports[r] :
            /\ reports[r][n].total = Len(numbers[r])
            /\ reports[r][n].remaining = Len(numbers[r]) - (reports[r][n].i + 1)
            /\ reports[r][n].remaining >= 0

C27_Witness ==
    /\ Len(numbers["run1"]) = MaxContacts
    /\ Has("run1", "skipped++", 0)
    /\ Has("run1", "fails++", 1)
    /\ \E n \in DOMAIN reports["run1"] :
          /\ reports["run1"][n].i = 2
          /\ reports["run1"][n].skipped = 1
          /\ reports["run1"][n].fails = 1
          /\ reports["run1"][n].remaining = MaxContacts - 3

(* ------------------------------- C30 ----------------------------------- *)

\* The number a character stands for, 10 for a character that is no digit.
DigitValue(c) ==
    IF \E d \in 0..9 : DigitChars[d + 1] = c
    THEN CHOOSE d \in 0..9 : DigitChars[d + 1] = c
    ELSE 10

\* The number the two characters from position p on stand for.
Field(str, p) == DigitValue(str[p]) * 10 + DigitValue(str[p + 1])

\* C30: for 0 <= h < 24, 0 <= m < 60, 0 <= s < 60 the string
\* convertMsToTime(toMilliseconds(h, m, s)) is hh:mm:ss with two digits each;
\* for every millisecond value the hours field is the whole hours modulo 24:
\* 86400000 gives 00:00:00 and 54000000 gives 15:00:00.
C30_TimeRoundTrip ==
    tpc = "done" =>
        /\ Len(time) = 8
        /\ time[3] = ":" /\ time[6] = ":"
        /\ \A p \in {1, 2, 4, 5, 7, 8} : DigitValue(time[p]) < 10
        /\ (inHrs < 24 /\ milliseconds = ((inHrs * 60 + inMin) * 60 + inSec) * 1000) =>
              /\ Field(time, 1) = inHrs
              /\ Field(time, 4) = inMin
              /\ Field(time, 7) = inSec
        /\ Field(time, 1) = (milliseconds \div 3600000) % 24
        /\ Field(time, 4) = (milliseconds \div 60000) % 60
        /\ Field(time, 7) = (milliseconds \div 1000) % 60
        /\ milliseconds = 86400000 => time = <<"0", "0", ":", "0", "0", ":", "0", "0">>
        /\ milliseconds = 54000000 => time = <<"1", "5", ":", "0", "0", ":", "0", "0">>

C30_Witness ==
    /\ tpc = "done"
    /\ inHrs = 24
    /\ milliseconds = 86400000
    /\ time = <<"0", "0", ":", "0", "0", ":", "0", "0">>

(* ------------------------------- C28 ----------------------------------- *)

\* What run r printed of the kind ev.
Printed(r, ev) == {setupLog[r][n].arg : n \in {h \in DOMAIN setupLog[r] : setupLog[r][h].ev = ev}}

\* C28: a run of setupDatabase that is started on a database an earlier run
\* has set up finds the three collections with documents in each, and no step
\* of it creates a collection or changes a document count: it inserts no
\* seed, and the counts after it are those after the first.
C28_SetupIsIdempotent ==
    [][\A r \in SetupRuns :
          setup'[r].after # {} =>
              /\ collections' = CollectionNames
              /\ \A c \in CollectionNames : documents'[c] > 0
              /\ Printed(r, "createCollection")' = {}
              /\ Printed(r, "insertMany")' = {}
              /\ setup'[r] # setup[r] =>
                    (collections' = collections /\ documents' = documents)]_vars

C28_Witness ==
    /\ setup[1].promise = "resolved"
    /\ setup[2].promise = "resolved"
    /\ setup[2].after = {1}
    /\ Printed(1, "createCollection") = CollectionNames
    /\ Printed(1, "insertMany") = CollectionNames
    /\ Printed(2, "completed") = {SeedLength}
    /\ documents = SeedLength

(* ------------------------------- C29 ----------------------------------- *)

\* The payment records the call created.
PaymentsBy(c) == {n \in DOMAIN payments : payments[n].by = c}

\* The calls of payCommission.
PayCommissionCalls == {c \in CallIds : calls[c].fn = "payCommission"}

====
